---- MODULE Spec2Model ----
(***************************************************************************)
(* The persistence and consistency engine of markdown-online: the          *)
(* StorageService of src/unnamed/part_000 (imported by the App component   *)
(* as ./services/storage).  Two durable collections, notes and folders,    *)
(* are read whole, changed in memory and written whole by every operation. *)
(*                                                                         *)
(* A text (note content, tag) is a sequence of one-character strings.      *)
(* Ids are the integers handed out by generateId; Null stands for null,    *)
(* Absent for an omitted (undefined) argument, Bogus for an id the         *)
(* generator never handed out.                                             *)
(***************************************************************************)
EXTENDS Integers, Sequences, FiniteSets, TLC

VARIABLES
  notes,     \* localStorage[STORAGE_KEY_NOTES], parsed: a sequence of Note records
  folders,   \* localStorage[STORAGE_KEY_FOLDERS], parsed: a sequence of Folder records
  raw,       \* the kind of text stored under each of the two keys
  clock,     \* the value Date.now() returns
  nextId,    \* the next id generateId hands out
  writable,  \* the collections for which localStorage.setItem accepts a write
  last,      \* the last store call: its name, its arguments, the collections it saved
  result,    \* what the last store call gave its caller
  calls,     \* the calls followed access by access: where each one is in its body
  log,       \* the accesses these calls made to the two collections, in order
  ui         \* the state of App (notes, folders, tags) and its refreshData calls in flight

vars == <<notes, folders, raw, clock, nextId, writable, last, result, calls, log, ui>>

-----------------------------------------------------------------------------
(* Bounds of the model *)

MaxIds == 3        \* ids generateId hands out in one behaviour
MaxNotes == 2      \* notes stored at one time
MaxFolders == 2    \* folders stored at one time
MaxClock == 1      \* the last value of the clock
MaxInitLen == 5    \* the longest content drawn for the tag-rewriting specification
MaxCalls == 2      \* calls followed access by access in one behaviour
MaxPending == 2    \* refreshData calls of App in flight at one time

-----------------------------------------------------------------------------
(* Values *)

Null == 0 - 1
Absent == 0 - 2
Bogus == 0

\* the line feed, as a character of a text
Newline == "newline"

WordChars == {"a", "b"}
SpaceChars == {" ", Newline}

IsWord(c) == c \in WordChars
IsSpace(c) == c \in SpaceChars

RECURSIVE WordRun(_, _)
\* the length of the maximal run of word characters of s that starts at i
WordRun(s, i) ==
  IF i > Len(s) \/ ~IsWord(s[i]) THEN 0 ELSE 1 + WordRun(s, i + 1)

RECURSIVE MatchAll(_, _)
\* content.match(/#([\w\u4e00-\u9fa5]+)/g): the matches from position i on, left to
\* right, each the greedy run after a '#', without the '#'
MatchAll(s, i) ==
  IF i > Len(s) THEN <<>>
  ELSE IF s[i] = "#" /\ WordRun(s, i + 1) > 0
       THEN <<SubSeq(s, i + 1, i + WordRun(s, i + 1))>>
              \o MatchAll(s, i + 1 + WordRun(s, i + 1))
       ELSE MatchAll(s, i + 1)

RECURSIVE Dedupe(_)
\* Array.from(new Set(xs)): the first occurrence of each element, in order
Dedupe(xs) ==
  IF xs = <<>> THEN <<>>
  ELSE LET init == Dedupe(SubSeq(xs, 1, Len(xs) - 1))
           x == xs[Len(xs)]
       IN IF \E j \in 1..Len(init) : init[j] = x THEN init ELSE Append(init, x)

extractTags(content) == Dedupe(MatchAll(content, 1))

Range(f) == {f[i] : i \in DOMAIN f}

Includes(xs, x) == \E j \in 1..Len(xs) : xs[j] = x

\* notes.findIndex(n => n.id === id): the first index, 0 for -1
findIndex(xs, id) ==
  IF \E j \in 1..Len(xs) : xs[j].id = id
  THEN CHOOSE j \in 1..Len(xs) : xs[j].id = id /\ \A h \in 1..(j - 1) : xs[h].id # id
  ELSE 0

-----------------------------------------------------------------------------
(* Durable store: part_000 lines 17-33 and 186-202 *)

\* The text under a key is of one of four kinds: none (the key was never
\* written), array (the JSON of a sequence of records, held parsed in notes or
\* folders), garbage (text JSON.parse rejects) or notArray (JSON of something
\* else: an object, a number, null).  notes and folders are empty unless the
\* kind is array.
Kinds == {"none", "array", "garbage", "notArray"}
Collections == {"notes", "folders"}

\* the value read has the methods of an array (unshift, findIndex, map, ...);
\* on any other value the first of these calls throws a TypeError
IsArray(coll) == raw[coll] # "notArray"

\* raw ? JSON.parse(raw) : [] in try/catch, for a text that holds an array or
\* nothing a parser accepts
getNotesFromStorage == IF raw.notes = "array" THEN notes ELSE <<>>

\* a save that stores the notes whether setItem accepts the write or not
saveNotesToStorageThrough(ns) == ns

\* the value of the notes collection after localStorage.setItem(...) in try/catch
saveNotesToStorage(ns) == IF "notes" \in writable THEN ns ELSE notes

getFoldersFromStorage == IF raw.folders = "array" THEN folders ELSE <<>>

saveFoldersToStorage(fs) == IF "folders" \in writable THEN fs ELSE folders

\* the kind of the text under the key after a save of that collection
savedKind(coll) == IF coll \in writable THEN "array" ELSE raw[coll]

\* an id generator that hands the previous id out again
generateIdAgain == IF nextId > 1 THEN nextId - 1 ELSE nextId

generateId == nextId

-----------------------------------------------------------------------------
(* Note Store: part_000 lines 47-118.  Each operator gives the array the   *)
(* method builds (out) and whether it calls saveNotesToStorage (save).     *)

RECURSIVE sortByUpdatedAt(_)
\* xs.sort((a, b) => b.updatedAt - a.updatedAt): a stable sort, the later
\* updatedAt first
sortByUpdatedAt(xs) ==
  IF xs = <<>> THEN <<>>
  ELSE LET init == sortByUpdatedAt(SubSeq(xs, 1, Len(xs) - 1))
           x == xs[Len(xs)]
           k == Cardinality({j \in 1..Len(init) : init[j].updatedAt >= x.updatedAt})
       IN SubSeq(init, 1, k) \o <<x>> \o SubSeq(init, k + 1, Len(init))

\* getAllNotes without the sort of line 44: the notes in stored order
getAllNotesStored(ns) == ns

getAllNotes(ns) == sortByUpdatedAt(ns)

\* createNote with the two clock readings of lines 52-53 taken the other way
\* round: createdAt the later one
createNoteLateCreatedAt(ns, id, content, folderId, t1, t2) ==
  LET newNote == [id |-> id, content |-> content, createdAt |-> t2, updatedAt |-> t1,
                  isPinned |-> FALSE, isTrashed |-> FALSE,
                  tags |-> extractTags(content), folderId |-> folderId]
  IN [out |-> <<newNote>> \o ns, save |-> TRUE]

createNote(ns, id, content, folderId, t1, t2) ==
  LET newNote == [id |-> id, content |-> content, createdAt |-> t1, updatedAt |-> t2,
                  isPinned |-> FALSE, isTrashed |-> FALSE,
                  tags |-> extractTags(content), folderId |-> folderId]
  IN [out |-> <<newNote>> \o ns, save |-> TRUE]

\* updateNote with the test of line 76 written folderId != null: null is taken
\* for an absent argument
updateNoteNullAsAbsent(ns, id, content, folderId, now) ==
  LET index == findIndex(ns, id)
      updatedNote == [ns[index] EXCEPT !.content = content,
                                       !.updatedAt = now,
                                       !.tags = extractTags(content),
                                       !.folderId = IF folderId \notin {Absent, Null}
                                                    THEN folderId ELSE @]
  IN IF index = 0 THEN [out |-> ns, save |-> FALSE]
     ELSE [out |-> [ns EXCEPT ![index] = updatedNote], save |-> TRUE]

\* updateNote keeping the tags of the old content
updateNoteStaleTags(ns, id, content, folderId, now) ==
  LET index == findIndex(ns, id)
      updatedNote == [ns[index] EXCEPT !.content = content,
                                       !.updatedAt = now,
                                       !.folderId = IF folderId # Absent THEN folderId ELSE @]
  IN IF index = 0 THEN [out |-> ns, save |-> FALSE]
     ELSE [out |-> [ns EXCEPT ![index] = updatedNote], save |-> TRUE]

updateNote(ns, id, content, folderId, now) ==
  LET index == findIndex(ns, id)
      updatedNote == [ns[index] EXCEPT !.content = content,
                                       !.updatedAt = now,
                                       !.tags = extractTags(content),
                                       !.folderId = IF folderId # Absent THEN folderId ELSE @]
  IN IF index = 0 THEN [out |-> ns, save |-> FALSE]
     ELSE [out |-> [ns EXCEPT ![index] = updatedNote], save |-> TRUE]

\* togglePin saving the notes also when no note has the id
togglePinAlwaysSave(ns, id) ==
  LET index == findIndex(ns, id)
  IN IF index = 0 THEN [out |-> ns, save |-> TRUE]
     ELSE [out |-> [ns EXCEPT ![index].isPinned = ~@], save |-> TRUE]

togglePin(ns, id) ==
  LET index == findIndex(ns, id)
  IN IF index = 0 THEN [out |-> ns, save |-> FALSE]
     ELSE [out |-> [ns EXCEPT ![index].isPinned = ~@], save |-> TRUE]

\* moveToTrash without line 100: the note keeps its pin
moveToTrashKeepPin(ns, id) ==
  LET index == findIndex(ns, id)
  IN IF index # 0
     THEN [out |-> [ns EXCEPT ![index].isTrashed = TRUE], save |-> TRUE]
     ELSE [out |-> ns, save |-> FALSE]

\* moveToTrash that trashes every note once the named one is found
moveToTrashAll(ns, id) ==
  LET index == findIndex(ns, id)
  IN IF index # 0
     THEN [out |-> [i \in 1..Len(ns) |->
                     [ns[i] EXCEPT !.isTrashed = TRUE, !.isPinned = FALSE]],
           save |-> TRUE]
     ELSE [out |-> ns, save |-> FALSE]

moveToTrash(ns, id) ==
  LET index == findIndex(ns, id)
  IN IF index # 0
     THEN [out |-> [ns EXCEPT ![index].isTrashed = TRUE, ![index].isPinned = FALSE],
           save |-> TRUE]
     ELSE [out |-> ns, save |-> FALSE]

\* restoreFromTrash that also pins the note it restores
restoreFromTrashPinned(ns, id) ==
  LET index == findIndex(ns, id)
  IN IF index # 0
     THEN [out |-> [ns EXCEPT ![index].isTrashed = FALSE, ![index].isPinned = TRUE],
           save |-> TRUE]
     ELSE [out |-> ns, save |-> FALSE]

restoreFromTrash(ns, id) ==
  LET index == findIndex(ns, id)
  IN IF index # 0
     THEN [out |-> [ns EXCEPT ![index].isTrashed = FALSE], save |-> TRUE]
     ELSE [out |-> ns, save |-> FALSE]

\* deletePermanently that removes a note only from the trash
deletePermanentlyTrashedOnly(ns, id) ==
  [out |-> SelectSeq(ns, LAMBDA n : ~(n.id = id /\ n.isTrashed)), save |-> TRUE]

deletePermanently(ns, id) ==
  [out |-> SelectSeq(ns, LAMBDA n : n.id # id), save |-> TRUE]

-----------------------------------------------------------------------------
(* Tag Index: part_000 lines 121-183 *)

\* tagMap.set(tag, (tagMap.get(tag) || 0) + 1) on a Map held as the sequence
\* of its entries, in the order of their first insertion
MapCount(m, tag) ==
  IF \E j \in 1..Len(m) : m[j].tag = tag
  THEN [j \in 1..Len(m) |-> IF m[j].tag = tag THEN [m[j] EXCEPT !.count = @ + 1] ELSE m[j]]
  ELSE Append(m, [tag |-> tag, count |-> 1])

RECURSIVE CountTags(_, _, _)
\* note.tags.forEach(...), from the first n tags on
CountTags(m, tags, n) ==
  IF n = 0 THEN m ELSE MapCount(CountTags(m, tags, n - 1), tags[n])

RECURSIVE getTagsAll(_, _)
\* getTags without the test of line 126: the notes in the trash count too
getTagsAll(ns, n) ==
  IF n = 0 THEN <<>>
  ELSE CountTags(getTagsAll(ns, n - 1), ns[n].tags, Len(ns[n].tags))

RECURSIVE getTags(_, _)
\* notes.forEach(...) over the first n notes, then Array.from(tagMap.entries())
getTags(ns, n) ==
  IF n = 0 THEN <<>>
  ELSE IF ~ns[n].isTrashed
       THEN CountTags(getTags(ns, n - 1), ns[n].tags, Len(ns[n].tags))
       ELSE getTags(ns, n - 1)

\* s has p at position i
StartsAt(s, i, p) ==
  i + Len(p) - 1 <= Len(s) /\ SubSeq(s, i, i + Len(p) - 1) = p

\* new RegExp(`#${tag}(?![\\w\\u4e00-\\u9fa5])`) matches s at position i, for a
\* tag of word characters (a tag some note includes is one)
\* the match without the lookahead: #tag at the head of a longer tag too
TagMatchAtNoBoundary(s, i, tag) == StartsAt(s, i, <<"#">> \o tag)

TagMatchAt(s, i, tag) ==
  /\ StartsAt(s, i, <<"#">> \o tag)
  /\ (i + Len(tag) + 1 > Len(s) \/ ~IsWord(s[i + Len(tag) + 1]))

\* the backtick and the apostrophe, as characters of a text
Backtick == "backtick"
Apostrophe == "apostrophe"

RECURSIVE GetSubstitution(_, _, _, _, _)
\* String.prototype.replace with a string replacement and a pattern without
\* groups: in the replacement from position j on, $$ is $, $& the match (the n
\* characters of s at i), $ and a backtick the text before the match, $ and an
\* apostrophe the text after it; any other $ stands for itself
GetSubstitution(repl, j, s, i, n) ==
  IF j > Len(repl) THEN <<>>
  ELSE IF repl[j] = "$" /\ j < Len(repl) /\ repl[j + 1] \in {"$", "&", Backtick, Apostrophe}
       THEN (CASE repl[j + 1] = "$" -> <<"$">>
               [] repl[j + 1] = "&" -> SubSeq(s, i, i + n - 1)
               [] repl[j + 1] = Backtick -> SubSeq(s, 1, i - 1)
               [] repl[j + 1] = Apostrophe -> SubSeq(s, i + n, Len(s)))
              \o GetSubstitution(repl, j + 2, s, i, n)
       ELSE <<repl[j]>> \o GetSubstitution(repl, j + 1, s, i, n)

RECURSIVE ReplaceTag(_, _, _, _)
\* content.replace(regex, repl) with the g flag: the matches left to right, the
\* search going on after each match
ReplaceTag(s, i, tag, repl) ==
  IF i > Len(s) THEN <<>>
  ELSE IF TagMatchAt(s, i, tag)
       THEN GetSubstitution(repl, 1, s, i, Len(tag) + 1)
              \o ReplaceTag(s, i + Len(tag) + 1, tag, repl)
       ELSE <<s[i]>> \o ReplaceTag(s, i + 1, tag, repl)

RECURSIVE SpaceRun(_, _)
SpaceRun(s, i) ==
  IF i > Len(s) \/ ~IsSpace(s[i]) THEN 0 ELSE 1 + SpaceRun(s, i + 1)

RECURSIVE CollapseSpaces(_, _)
\* s.replace(/\s{2,}/g, ' ')
CollapseSpaces(s, i) ==
  IF i > Len(s) THEN <<>>
  ELSE IF SpaceRun(s, i) >= 2
       THEN <<" ">> \o CollapseSpaces(s, i + SpaceRun(s, i))
       ELSE <<s[i]>> \o CollapseSpaces(s, i + 1)

\* Date.now() as the map callback reaches index i, the clock reading t when the
\* map starts and ticking once as it reaches index k (k > length: no tick)
NowAt(t, k, i) == IF i >= k THEN t + 1 ELSE t

\* renameTag giving every note a new updatedAt, whether it holds the tag or not
renameTagTouchAll(ns, oldTag, newTag, t, k) ==
  LET newContent(note) == ReplaceTag(note.content, 1, oldTag, <<"#">> \o newTag)
      newNotes == [i \in 1..Len(ns) |->
                     [ns[i] EXCEPT !.content = newContent(ns[i]),
                                   !.tags = extractTags(newContent(ns[i])),
                                   !.updatedAt = NowAt(t, k, i)]]
      updated == \E i \in 1..Len(ns) : Includes(ns[i].tags, oldTag)
  IN [out |-> newNotes, save |-> updated]

renameTag(ns, oldTag, newTag, t, k) ==
  LET newContent(note) == ReplaceTag(note.content, 1, oldTag, <<"#">> \o newTag)
      newNotes == [i \in 1..Len(ns) |->
                     IF Includes(ns[i].tags, oldTag)
                     THEN [ns[i] EXCEPT !.content = newContent(ns[i]),
                                        !.tags = extractTags(newContent(ns[i])),
                                        !.updatedAt = NowAt(t, k, i)]
                     ELSE ns[i]]
      updated == \E i \in 1..Len(ns) : Includes(ns[i].tags, oldTag)
  IN [out |-> newNotes, save |-> updated]

\* deleteTag without the second replace of line 169: the runs of whitespace stay
deleteTagNoCollapse(ns, tagToDelete, t, k) ==
  LET newContent(note) == ReplaceTag(note.content, 1, tagToDelete, <<>>)
      newNotes == [i \in 1..Len(ns) |->
                     IF Includes(ns[i].tags, tagToDelete)
                     THEN [ns[i] EXCEPT !.content = newContent(ns[i]),
                                        !.tags = extractTags(newContent(ns[i])),
                                        !.updatedAt = NowAt(t, k, i)]
                     ELSE ns[i]]
      updated == \E i \in 1..Len(ns) : Includes(ns[i].tags, tagToDelete)
  IN [out |-> newNotes, save |-> updated]

deleteTag(ns, tagToDelete, t, k) ==
  LET newContent(note) ==
        CollapseSpaces(ReplaceTag(note.content, 1, tagToDelete, <<>>), 1)
      newNotes == [i \in 1..Len(ns) |->
                     IF Includes(ns[i].tags, tagToDelete)
                     THEN [ns[i] EXCEPT !.content = newContent(ns[i]),
                                        !.tags = extractTags(newContent(ns[i])),
                                        !.updatedAt = NowAt(t, k, i)]
                     ELSE ns[i]]
      updated == \E i \in 1..Len(ns) : Includes(ns[i].tags, tagToDelete)
  IN [out |-> newNotes, save |-> updated]

-----------------------------------------------------------------------------
(* Folder Store: part_000 lines 209-256 *)

\* a.name.localeCompare(b.name) on the names the callers pass
NameRank(name) == IF name = "A" THEN 1 ELSE 2

RECURSIVE sortByName(_)
\* xs.sort((a, b) => a.name.localeCompare(b.name)): a stable sort, the names in
\* the order of the locale ("A" before "B")
sortByName(xs) ==
  IF xs = <<>> THEN <<>>
  ELSE LET init == sortByName(SubSeq(xs, 1, Len(xs) - 1))
           x == xs[Len(xs)]
           k == Cardinality({j \in 1..Len(init) :
                               NameRank(init[j].name) <= NameRank(x.name)})
       IN SubSeq(init, 1, k) \o <<x>> \o SubSeq(init, k + 1, Len(init))

getAllFolders(fs) == sortByName(fs)

\* createFolder that gives the new folder the id of the folder stored last
createFolderSameId(fs, id, name, parentId, now) ==
  Append(fs, [id |-> IF fs = <<>> THEN id ELSE fs[Len(fs)].id, name |-> name,
              parentId |-> parentId, createdAt |-> now])

createFolder(fs, id, name, parentId, now) ==
  Append(fs, [id |-> id, name |-> name, parentId |-> parentId, createdAt |-> now])

updateFolder(fs, id, name) ==
  LET index == findIndex(fs, id)
  IN IF index # 0
     THEN [out |-> [fs EXCEPT ![index].name = name], save |-> TRUE]
     ELSE [out |-> fs, save |-> FALSE]

\* the notes cascade with the save of line 243 outside the test of line 242
detachNotesAlwaysSave(ns, id) ==
  [out |-> [i \in 1..Len(ns) |->
              IF ns[i].folderId = id THEN [ns[i] EXCEPT !.folderId = Null] ELSE ns[i]],
   save |-> TRUE]

\* the notes cascade of deleteFolder (lines 234-243)
detachNotes(ns, id) ==
  [out |-> [i \in 1..Len(ns) |->
              IF ns[i].folderId = id THEN [ns[i] EXCEPT !.folderId = Null] ELSE ns[i]],
   save |-> \E i \in 1..Len(ns) : ns[i].folderId = id]

\* deleteFolder without its folders cascade: the children keep their parentId
removeOnly(fs, id) == SelectSeq(fs, LAMBDA f : f.id # id)

\* the folders cascade and the removal of deleteFolder (lines 245-254)
promoteAndRemove(fs, id) ==
  LET promoted == [i \in 1..Len(fs) |->
                     IF fs[i].parentId = id THEN [fs[i] EXCEPT !.parentId = Null]
                     ELSE fs[i]]
  IN SelectSeq(promoted, LAMBDA f : f.id # id)

-----------------------------------------------------------------------------------------------------------------------------------------------------
(* Inputs *)

Ta == <<"a">>
Tb == <<"b">>
Tab == <<"a", "b">>
Ha == <<"#", "a">>

\* contents the callers pass to createNote and updateNote
Contents == {<<>>, Ha}

Names == {"A", "B"}

\* every text over the characters cs of length at most n
RECURSIVE Texts(_, _)
Texts(cs, n) ==
  IF n = 0 THEN {<<>>}
  ELSE LET shorter == Texts(cs, n - 1)
       IN shorter \cup {Append(t, c) : t \in {u \in shorter : Len(u) = n - 1}, c \in cs}

NoteIds(ns) == {ns[i].id : i \in 1..Len(ns)}
FolderIds(fs) == {fs[i].id : i \in 1..Len(fs)}

\* ids a caller passes: those stored, and one that is not (an id that was never
\* handed out, or that of a record deleted since)
NoteIdArgs == NoteIds(notes) \cup {Bogus}
FolderIdArgs == FolderIds(folders) \cup {Bogus}

NoCall == [op |-> "init", id |-> Bogus, fid |-> Absent, tag |-> <<>>, newTag |-> <<>>,
           wrote |-> {}]

Call(op, id, fid, tag, newTag, wrote) ==
  [op |-> op, id |-> id, fid |-> fid, tag |-> tag, newTag |-> newTag, wrote |-> wrote]

Wrote(save, coll) == IF save THEN {coll} ELSE {}

\* what a call gives its caller: the kind of the value and the value
Ret(kind, value) == [kind |-> kind, value |-> value]
Void == Ret("void", Null)
Threw == Ret("TypeError", Null)

\* the callers of the calls that are followed access by access
Callers == 1..MaxCalls

\* a caller that has made no call
Idle == [op |-> "none", id |-> Bogus, at |-> 0, busy |-> FALSE, done |-> FALSE,
         ns |-> <<>>, fs |-> <<>>]

NoCalls == [p \in Callers |-> Idle]

\* App before it is mounted: useState([]) three times (part_003 lines 9-11), no
\* refreshData called yet
NoUi == [notes |-> <<>>, folders |-> <<>>, tags |-> <<>>, pending |-> <<>>]

\* the kinds after a call that saved the notes (save) or did not
RawAfter(coll, save) == IF save THEN [raw EXCEPT ![coll] = savedKind(coll)] ELSE raw

-----------------------------------------------------------------------------
(* The state after construction: nothing stored yet *)

Init ==
  /\ notes = <<>>
  /\ folders = <<>>
  /\ raw = [notes |-> "none", folders |-> "none"]
  /\ clock = 0
  /\ nextId = 1
  /\ writable = Collections
  /\ last = NoCall
  /\ result = Void
  /\ calls = NoCalls
  /\ log = <<>>
  /\ ui = NoUi

-----------------------------------------------------------------------------
(* One action per store method.  A method whose collection holds a value   *)
(* that is not an array throws at its first array call, before any save.   *)

\* the call throws: nothing is saved
NotesThrow(op, id, fid, tag, newTag) ==
  /\ notes' = notes
  /\ raw' = raw
  /\ last' = Call(op, id, fid, tag, newTag, {})
  /\ result' = Threw

GetAllNotes ==
  /\ IF IsArray("notes")
     THEN /\ result' = Ret("notes", getAllNotes(getNotesFromStorage))
          /\ last' = Call("getAllNotes", Bogus, Absent, <<>>, <<>>, {})
     ELSE /\ result' = Threw
          /\ last' = Call("getAllNotes", Bogus, Absent, <<>>, <<>>, {})
  /\ UNCHANGED <<notes, folders, raw, clock, nextId, writable, calls, log, ui>>

GetTags ==
  /\ IF IsArray("notes")
     THEN /\ result' = Ret("tags", getTags(getNotesFromStorage, Len(getNotesFromStorage)))
          /\ last' = Call("getTags", Bogus, Absent, <<>>, <<>>, {})
     ELSE /\ result' = Threw
          /\ last' = Call("getTags", Bogus, Absent, <<>>, <<>>, {})
  /\ UNCHANGED <<notes, folders, raw, clock, nextId, writable, calls, log, ui>>

\* d: the clock ticks (1) or not (0) between the two Date.now() of lines 52-53
CreateNote(content, folderId, d) ==
  /\ nextId <= MaxIds
  /\ Len(notes) < MaxNotes
  /\ clock + d <= MaxClock
  /\ IF IsArray("notes")
     THEN LET r == createNote(getNotesFromStorage, generateId, content, folderId,
                              clock, clock + d)
          IN /\ notes' = saveNotesToStorage(r.out)
             /\ raw' = RawAfter("notes", TRUE)
             /\ last' = Call("createNote", generateId, folderId, <<>>, <<>>, {"notes"})
             /\ result' = Ret("note", r.out[1])
     ELSE NotesThrow("createNote", generateId, folderId, <<>>, <<>>)
  /\ nextId' = nextId + 1
  /\ clock' = clock + d
  /\ UNCHANGED <<folders, writable, calls, log, ui>>

UpdateNote(id, content, folderId) ==
  /\ IF IsArray("notes")
     THEN LET r == updateNote(getNotesFromStorage, id, content, folderId, clock)
          IN /\ notes' = IF r.save THEN saveNotesToStorage(r.out) ELSE notes
             /\ raw' = RawAfter("notes", r.save)
             /\ last' = Call("updateNote", id, folderId, <<>>, <<>>,
                             Wrote(r.save, "notes"))
             /\ result' = IF findIndex(r.out, id) # 0
                          THEN Ret("note", r.out[findIndex(r.out, id)])
                          ELSE Ret("null", Null)
     ELSE NotesThrow("updateNote", id, folderId, <<>>, <<>>)
  /\ UNCHANGED <<folders, clock, nextId, writable, calls, log, ui>>

TogglePin(id) ==
  /\ IF IsArray("notes")
     THEN LET r == togglePin(getNotesFromStorage, id)
          IN /\ notes' = IF r.save THEN saveNotesToStorage(r.out) ELSE notes
             /\ raw' = RawAfter("notes", r.save)
             /\ last' = Call("togglePin", id, Absent, <<>>, <<>>, Wrote(r.save, "notes"))
             /\ result' = IF findIndex(r.out, id) # 0
                          THEN Ret("note", r.out[findIndex(r.out, id)])
                          ELSE Ret("null", Null)
     ELSE NotesThrow("togglePin", id, Absent, <<>>, <<>>)
  /\ UNCHANGED <<folders, clock, nextId, writable, calls, log, ui>>

MoveToTrash(id) ==
  /\ IF IsArray("notes")
     THEN LET r == moveToTrash(getNotesFromStorage, id)
          IN /\ notes' = IF r.save THEN saveNotesToStorage(r.out) ELSE notes
             /\ raw' = RawAfter("notes", r.save)
             /\ last' = Call("moveToTrash", id, Absent, <<>>, <<>>,
                             Wrote(r.save, "notes"))
             /\ result' = Void
     ELSE NotesThrow("moveToTrash", id, Absent, <<>>, <<>>)
  /\ UNCHANGED <<folders, clock, nextId, writable, calls, log, ui>>

RestoreFromTrash(id) ==
  /\ IF IsArray("notes")
     THEN LET r == restoreFromTrash(getNotesFromStorage, id)
          IN /\ notes' = IF r.save THEN saveNotesToStorage(r.out) ELSE notes
             /\ raw' = RawAfter("notes", r.save)
             /\ last' = Call("restoreFromTrash", id, Absent, <<>>, <<>>,
                             Wrote(r.save, "notes"))
             /\ result' = Void
     ELSE NotesThrow("restoreFromTrash", id, Absent, <<>>, <<>>)
  /\ UNCHANGED <<folders, clock, nextId, writable, calls, log, ui>>

DeletePermanently(id) ==
  /\ IF IsArray("notes")
     THEN LET r == deletePermanently(getNotesFromStorage, id)
          IN /\ notes' = IF r.save THEN saveNotesToStorage(r.out) ELSE notes
             /\ raw' = RawAfter("notes", r.save)
             /\ last' = Call("deletePermanently", id, Absent, <<>>, <<>>,
                             Wrote(r.save, "notes"))
             /\ result' = Void
     ELSE NotesThrow("deletePermanently", id, Absent, <<>>, <<>>)
  /\ UNCHANGED <<folders, clock, nextId, writable, calls, log, ui>>

\* k: the index of the map at which the clock ticks (Len(notes) + 1: no tick)
RenameTag(oldTag, newTag, k) ==
  /\ k \in 1..(Len(notes) + 1)
  /\ k <= Len(notes) => clock < MaxClock
  /\ IF IsArray("notes")
     THEN LET r == renameTag(getNotesFromStorage, oldTag, newTag, clock, k)
          IN /\ notes' = IF r.save THEN saveNotesToStorage(r.out) ELSE notes
             /\ raw' = RawAfter("notes", r.save)
             /\ last' = Call("renameTag", Bogus, Absent, oldTag, newTag,
                             Wrote(r.save, "notes"))
             /\ result' = Void
     ELSE NotesThrow("renameTag", Bogus, Absent, oldTag, newTag)
  /\ clock' = IF k <= Len(notes) THEN clock + 1 ELSE clock
  /\ UNCHANGED <<folders, nextId, writable, calls, log, ui>>

DeleteTag(tagToDelete, k) ==
  /\ k \in 1..(Len(notes) + 1)
  /\ k <= Len(notes) => clock < MaxClock
  /\ IF IsArray("notes")
     THEN LET r == deleteTag(getNotesFromStorage, tagToDelete, clock, k)
          IN /\ notes' = IF r.save THEN saveNotesToStorage(r.out) ELSE notes
             /\ raw' = RawAfter("notes", r.save)
             /\ last' = Call("deleteTag", Bogus, Absent, tagToDelete, <<>>,
                             Wrote(r.save, "notes"))
             /\ result' = Void
     ELSE NotesThrow("deleteTag", Bogus, Absent, tagToDelete, <<>>)
  /\ clock' = IF k <= Len(notes) THEN clock + 1 ELSE clock
  /\ UNCHANGED <<folders, nextId, writable, calls, log, ui>>

GetAllFolders ==
  /\ IF IsArray("folders")
     THEN /\ result' = Ret("folders", getAllFolders(getFoldersFromStorage))
          /\ last' = Call("getAllFolders", Bogus, Absent, <<>>, <<>>, {})
     ELSE /\ result' = Threw
          /\ last' = Call("getAllFolders", Bogus, Absent, <<>>, <<>>, {})
  /\ UNCHANGED <<notes, folders, raw, clock, nextId, writable, calls, log, ui>>

CreateFolder(name, parentId) ==
  /\ nextId <= MaxIds
  /\ Len(folders) < MaxFolders
  /\ IF IsArray("folders")
     THEN LET fs == createFolder(getFoldersFromStorage, generateId, name, parentId, clock)
          IN /\ folders' = saveFoldersToStorage(fs)
             /\ raw' = RawAfter("folders", TRUE)
             /\ last' = Call("createFolder", generateId, parentId, <<>>, <<>>, {"folders"})
             /\ result' = Ret("folder", fs[Len(fs)])
     ELSE /\ UNCHANGED <<folders, raw>>
          /\ last' = Call("createFolder", generateId, parentId, <<>>, <<>>, {})
          /\ result' = Threw
  /\ nextId' = nextId + 1
  /\ UNCHANGED <<notes, clock, writable, calls, log, ui>>

UpdateFolder(id, name) ==
  /\ IF IsArray("folders")
     THEN LET r == updateFolder(getFoldersFromStorage, id, name)
          IN /\ folders' = IF r.save THEN saveFoldersToStorage(r.out) ELSE folders
             /\ raw' = RawAfter("folders", r.save)
             /\ last' = Call("updateFolder", id, Absent, <<>>, <<>>,
                             Wrote(r.save, "folders"))
             /\ result' = Void
     ELSE /\ UNCHANGED <<folders, raw>>
          /\ last' = Call("updateFolder", id, Absent, <<>>, <<>>, {})
          /\ result' = Threw
  /\ UNCHANGED <<notes, clock, nextId, writable, calls, log, ui>>

\* lines 231-256: both collections are read, the notes are written if one was
\* detached, then the folders are written.  notes.map (line 236) throws before
\* any save, folders.map (line 246) after the save of the notes.
DeleteFolder(id) ==
  /\ IF ~IsArray("notes")
     THEN /\ UNCHANGED <<notes, folders, raw>>
          /\ last' = Call("deleteFolder", id, Absent, <<>>, <<>>, {})
          /\ result' = Threw
     ELSE LET fs == getFoldersFromStorage
              r == detachNotes(getNotesFromStorage, id)
          IN /\ notes' = IF r.save THEN saveNotesToStorage(r.out) ELSE notes
             /\ IF IsArray("folders")
                THEN /\ folders' = saveFoldersToStorage(promoteAndRemove(fs, id))
                     /\ raw' = [raw EXCEPT
                                  !.notes = IF r.save THEN savedKind("notes") ELSE @,
                                  !.folders = savedKind("folders")]
                     /\ last' = Call("deleteFolder", id, Absent, <<>>, <<>>,
                                     Wrote(r.save, "notes") \cup {"folders"})
                     /\ result' = Void
                ELSE /\ folders' = folders
                     /\ raw' = RawAfter("notes", r.save)
                     /\ last' = Call("deleteFolder", id, Absent, <<>>, <<>>,
                                     Wrote(r.save, "notes"))
                     /\ result' = Threw
  /\ UNCHANGED <<clock, nextId, writable, calls, log, ui>>

\* localStorage starts or stops accepting writes under each key (the quota is
\* reached or freed, storage is switched off or on)
Quota(w) ==
  /\ writable # w
  /\ writable' = w
  /\ UNCHANGED <<notes, folders, raw, clock, nextId, last, result, calls, log, ui>>

\* time passes between two calls
Tick ==
  /\ clock < MaxClock
  /\ clock' = clock + 1
  /\ UNCHANGED <<notes, folders, raw, nextId, writable, last, result, calls, log, ui>>

-----------------------------------------------------------------------------
(* The calls followed access by access.  The body of an async method runs  *)
(* at once when the method is called, synchronously up to its first await  *)
(* and from an await to the next one or to its end: while one body runs    *)
(* (busy), no other body takes a step.  Both collections hold arrays here. *)

R(coll) == [kind |-> "read", coll |-> coll]
W(coll) == [kind |-> "write", coll |-> coll]
Await == [kind |-> "await", coll |-> "none"]

\* the bodies with an await between the read and the write of createNote
PlanAwaitBeforeWrite(op) ==
  CASE op = "getAllNotes" -> <<Await, R("notes")>>
    [] op = "createNote" -> <<R("notes"), Await, W("notes")>>
    [] op = "togglePin" -> <<R("notes"), W("notes")>>
    [] op = "createFolder" -> <<R("folders"), W("folders")>>
    [] op = "deleteFolder" -> <<R("folders"), R("notes"), W("notes"), W("folders")>>

\* the bodies with deleteFolder reading the notes before the folders
PlanNotesFirst(op) ==
  CASE op = "getAllNotes" -> <<Await, R("notes")>>
    [] op = "createNote" -> <<R("notes"), W("notes")>>
    [] op = "togglePin" -> <<R("notes"), W("notes")>>
    [] op = "createFolder" -> <<R("folders"), W("folders")>>
    [] op = "deleteFolder" -> <<R("notes"), R("folders"), W("notes"), W("folders")>>

\* what the body of a method does, in order: its awaits, its reads
\* (get...FromStorage) and its saves (lines 43-44, 48-60, 86-91, 210-218,
\* 232-255)
Plan(op) ==
  CASE op = "getAllNotes" -> <<Await, R("notes")>>
    [] op = "createNote" -> <<R("notes"), W("notes")>>
    [] op = "togglePin" -> <<R("notes"), W("notes")>>
    [] op = "createFolder" -> <<R("folders"), W("folders")>>
    [] op = "deleteFolder" -> <<R("folders"), R("notes"), W("notes"), W("folders")>>

\* the notes a call saves, from the notes it read
NotesOut(c) ==
  CASE c.op = "createNote" -> createNote(c.ns, generateId, <<>>, c.id, clock, clock)
    [] c.op = "togglePin" -> togglePin(c.ns, c.id)
    [] c.op = "deleteFolder" -> detachNotes(c.ns, c.id)

\* the folders a call saves, from the folders it read
FoldersOut(c) ==
  CASE c.op = "createFolder" -> createFolder(c.fs, generateId, "B", c.id, clock)
    [] c.op = "deleteFolder" -> promoteAndRemove(c.fs, c.id)

\* a caller calls a method: its body starts to run
Invoke(p, op, id) ==
  /\ calls[p] = Idle
  /\ \A q \in Callers : ~calls[q].busy
  /\ calls' = [calls EXCEPT ![p] = [Idle EXCEPT !.op = op, !.id = id, !.at = 1,
                                                !.busy = TRUE]]
  /\ UNCHANGED <<notes, folders, raw, clock, nextId, writable, last, result, log, ui>>

\* the body of the call of p runs up to its next access or await
Step(p) ==
  /\ calls[p].op # "none"
  /\ ~calls[p].done
  /\ \A q \in Callers \ {p} : ~calls[q].busy
  /\ LET c == calls[p]
         a == Plan(c.op)[c.at]
         ends == c.at = Len(Plan(c.op))
         next == [c EXCEPT !.at = @ + 1, !.done = ends,
                           !.busy = ~ends /\ a.kind # "await"]
         entry == [p |-> p, kind |-> a.kind, coll |-> a.coll]
     IN CASE a.kind = "await" ->
               /\ calls' = [calls EXCEPT ![p] = next]
               /\ UNCHANGED <<notes, folders, raw, nextId, log>>
          [] a = R("notes") ->
               /\ calls' = [calls EXCEPT ![p] = [next EXCEPT !.ns = getNotesFromStorage]]
               /\ log' = Append(log, entry)
               /\ UNCHANGED <<notes, folders, raw, nextId>>
          [] a = R("folders") ->
               /\ calls' = [calls EXCEPT ![p] = [next EXCEPT !.fs = getFoldersFromStorage]]
               /\ log' = Append(log, entry)
               /\ UNCHANGED <<notes, folders, raw, nextId>>
          [] a = W("notes") ->
               /\ calls' = [calls EXCEPT ![p] = next]
               /\ notes' = IF NotesOut(c).save THEN saveNotesToStorage(NotesOut(c).out)
                            ELSE notes
               /\ raw' = RawAfter("notes", NotesOut(c).save)
               /\ log' = IF NotesOut(c).save THEN Append(log, entry) ELSE log
               /\ nextId' = IF c.op = "createNote" THEN nextId + 1 ELSE nextId
               /\ UNCHANGED folders
          [] a = W("folders") ->
               /\ calls' = [calls EXCEPT ![p] = next]
               /\ folders' = saveFoldersToStorage(FoldersOut(c))
               /\ raw' = RawAfter("folders", TRUE)
               /\ log' = Append(log, entry)
               /\ nextId' = IF c.op = "createFolder" THEN nextId + 1 ELSE nextId
               /\ UNCHANGED notes
  /\ UNCHANGED <<clock, writable, last, result, ui>>

\* the store the calls followed access by access start from: a folder and a
\* note filed in it
BaseFolders == createFolder(<<>>, 1, "A", Null, 0)
BaseNotes == createNote(<<>>, 2, <<>>, 1, 0, 0).out

InitSteps ==
  /\ notes = BaseNotes
  /\ folders = BaseFolders
  /\ raw = [notes |-> "array", folders |-> "array"]
  /\ clock = 0
  /\ nextId = Len(BaseNotes) + Len(BaseFolders) + 1
  /\ writable = Collections
  /\ last = NoCall
  /\ result = Void
  /\ calls = NoCalls
  /\ log = <<>>
  /\ ui = NoUi

NextSteps ==
  \/ \E p \in Callers : Invoke(p, "getAllNotes", Bogus)
  \/ \E p \in Callers, f \in {1, Null} : Invoke(p, "createNote", f)
  \/ \E p \in Callers : Invoke(p, "togglePin", 2)
  \/ \E p \in Callers : Invoke(p, "createFolder", 1)
  \/ \E p \in Callers : Invoke(p, "deleteFolder", 1)
  \/ \E p \in Callers : Step(p)

SpecSteps == InitSteps /\ [][NextSteps]_vars

\* Folders and the notes filed in them: the clock stands still
Next ==
  \/ \E c \in Contents, f \in FolderIdArgs \cup {Null} : CreateNote(c, f, 0)
  \/ \E id \in NoteIds(notes), c \in Contents, f \in FolderIdArgs \cup {Null, Absent} :
       UpdateNote(id, c, f)
  \/ \E p \in FolderIdArgs \cup {Null} : CreateFolder("A", p)
  \/ \E id \in FolderIds(folders), nm \in Names : UpdateFolder(id, nm)
  \/ \E id \in FolderIdArgs : DeleteFolder(id)

Spec == Init /\ [][Next]_vars

\* The life of a note and its tags: notes at the root, no folder stored
NextNotes ==
  \/ \E c \in Contents : CreateNote(c, Null, 0)
  \/ \E id \in NoteIds(notes), c \in Contents : UpdateNote(id, c, Absent)
  \/ \E id \in NoteIds(notes) : TogglePin(id)
  \/ \E id \in NoteIds(notes) : MoveToTrash(id)
  \/ \E id \in NoteIds(notes) : RestoreFromTrash(id)
  \/ \E id \in NoteIds(notes) : DeletePermanently(id)
  \/ RenameTag(Ta, Tb, Len(notes) + 1)
  \/ DeleteTag(Tb, Len(notes) + 1)
  \/ DeleteFolder(Bogus)
  \/ GetTags

SpecNotes == Init /\ [][NextNotes]_vars

\* The listing of the notes as time passes: notes at the root
NextList ==
  \/ \E d \in {0, 1} : CreateNote(<<>>, Null, d)
  \/ \E id \in NoteIds(notes) : UpdateNote(id, Ha, Absent)
  \/ \E id \in NoteIds(notes) : DeletePermanently(id)
  \/ GetAllNotes
  \/ Tick

SpecList == Init /\ [][NextList]_vars

-----------------------------------------------------------------------------
(* App: part_003 lines 53-90.   A handler runs from the event that starts   *)
(* it to its first timer in one piece: the store methods it awaits have no  *)
(* timer except getAllNotes (50 ms) and getAllFolders (20 ms), so the code  *)
(* after `await storage.updateNote(...)` or `await storage.togglePin(...)`  *)
(* runs in the microtasks of the same event.  Timers of equal delay fire in *)
(* the order they were set.  Both collections hold arrays or nothing.       *)

\* getNotesFromStorage / getFoldersFromStorage on the store as a step leaves it
readNotes(ns, kinds) == IF kinds.notes = "array" THEN ns ELSE <<>>
readFolders(fs, kinds) == IF kinds.folders = "array" THEN fs ELSE <<>>

\* refreshData up to its timers (lines 54-58): getAllNotes and getAllFolders
\* wait, getTags has read the notes and holds its result
refreshData(u, ns, kinds) ==
  [u EXCEPT !.pending =
     Append(@, [tags |-> getTags(readNotes(ns, kinds), Len(readNotes(ns, kinds))),
                folders |-> <<>>, at |-> "started"])]

\* the contents the editor sends: an empty note, a note with one tag
UiContents == {<<>>, Ha}

\* useEffect(() => { refreshData(); ... }, []) (lines 22-23)
InitUi ==
  /\ notes = <<>>
  /\ folders = <<>>
  /\ raw = [notes |-> "none", folders |-> "none"]
  /\ clock = 0
  /\ nextId = 1
  /\ writable = Collections
  /\ last = NoCall
  /\ result = Void
  /\ calls = NoCalls
  /\ log = <<>>
  /\ ui = refreshData(NoUi, <<>>, raw)

\* lines 64-74: the template note (one tag) is created, then refreshData
handleCreateNote ==
  /\ nextId <= MaxIds
  /\ Len(notes) < MaxNotes
  /\ Len(ui.pending) < MaxPending
  /\ LET r == createNote(getNotesFromStorage, generateId, Ha, Null, clock, clock)
     IN /\ notes' = saveNotesToStorage(r.out)
        /\ raw' = RawAfter("notes", TRUE)
        /\ last' = Call("createNote", generateId, Null, <<>>, <<>>, {"notes"})
        /\ result' = Ret("note", r.out[1])
  /\ nextId' = nextId + 1
  /\ ui' = refreshData(ui, notes', raw')
  /\ UNCHANGED <<folders, clock, writable, calls, log>>

\* lines 76-83: the note of the list is changed in place, the store is
\* updated, and the tags are read again if the content has a '#' or a space
handleUpdateNote(id, content) ==
  /\ LET r == updateNote(getNotesFromStorage, id, content, Absent, clock)
     IN /\ notes' = IF r.save THEN saveNotesToStorage(r.out) ELSE notes
        /\ raw' = RawAfter("notes", r.save)
        /\ last' = Call("updateNote", id, Absent, <<>>, <<>>, Wrote(r.save, "notes"))
        /\ result' = IF findIndex(r.out, id) # 0
                     THEN Ret("note", r.out[findIndex(r.out, id)])
                     ELSE Ret("null", Null)
  /\ ui' = [ui EXCEPT
             !.notes = [i \in 1..Len(@) |->
                          IF @[i].id = id
                          THEN [@[i] EXCEPT !.content = content, !.updatedAt = clock]
                          ELSE @[i]],
             !.tags = IF Includes(content, "#") \/ Includes(content, " ")
                      THEN getTags(readNotes(notes', raw'), Len(readNotes(notes', raw')))
                      ELSE @]
  /\ UNCHANGED <<folders, clock, nextId, writable, calls, log>>

\* lines 85-90: moveToTrash, then refreshData
handleDeleteNote(id) ==
  /\ Len(ui.pending) < MaxPending
  /\ LET r == moveToTrash(getNotesFromStorage, id)
     IN /\ notes' = IF r.save THEN saveNotesToStorage(r.out) ELSE notes
        /\ raw' = RawAfter("notes", r.save)
        /\ last' = Call("moveToTrash", id, Absent, <<>>, <<>>, Wrote(r.save, "notes"))
        /\ result' = Void
  /\ ui' = refreshData(ui, notes', raw')
  /\ UNCHANGED <<folders, clock, nextId, writable, calls, log>>

\* the 20 ms timer of the i-th refreshData in flight: getAllFolders reads (part_000
\* lines 205-206)
RefreshFolders(i) ==
  /\ i \in 1..Len(ui.pending)
  /\ ui.pending[i].at = "started"
  /\ \A j \in 1..(i - 1) : ui.pending[j].at = "folders"
  /\ ui' = [ui EXCEPT !.pending[i] =
             [@ EXCEPT !.folders = getAllFolders(getFoldersFromStorage),
                       !.at = "folders"]]
  /\ UNCHANGED <<notes, folders, raw, clock, nextId, writable, last, result, calls, log>>

\* the 50 ms timer of the oldest refreshData in flight: getAllNotes reads
\* (part_000 lines 43-44), Promise.all is settled, and lines 59-61 set the
\* three lists
RefreshDone ==
  /\ ui.pending # <<>>
  /\ ui.pending[1].at = "folders"
  /\ ui' = [notes |-> getAllNotes(getNotesFromStorage),
            folders |-> ui.pending[1].folders,
            tags |-> ui.pending[1].tags,
            pending |-> Tail(ui.pending)]
  /\ UNCHANGED <<notes, folders, raw, clock, nextId, writable, last, result, calls, log>>

NextUi ==
  \/ handleCreateNote
  \/ \E id \in NoteIds(ui.notes), c \in UiContents : handleUpdateNote(id, c)
  \/ \E id \in NoteIds(ui.notes) : handleDeleteNote(id)
  \/ \E i \in 1..MaxPending : RefreshFolders(i)
  \/ RefreshDone

SpecUi == InitUi /\ [][NextUi]_vars

\* The pin, the trash and permanent deletion, on notes at the root
NextFlags ==
  \/ \E c \in Contents : CreateNote(c, Null, 0)
  \/ \E id \in NoteIds(notes) : TogglePin(id)
  \/ \E id \in NoteIds(notes) : MoveToTrash(id)
  \/ \E id \in NoteIds(notes) : RestoreFromTrash(id)
  \/ \E id \in NoteIdArgs : DeletePermanently(id)

SpecFlags == Init /\ [][NextFlags]_vars

\* The timestamps of the notes as time passes, between the calls and inside
\* them: notes at the root
NextTime ==
  \/ \E d \in {0, 1} : CreateNote(Ha, Null, d)
  \/ \E id \in NoteIds(notes), c \in Contents : UpdateNote(id, c, Absent)
  \/ \E id \in NoteIds(notes) : MoveToTrash(id)
  \/ \E k \in 1..(MaxNotes + 1) : RenameTag(Ta, Tb, k)
  \/ \E k \in 1..(MaxNotes + 1) : DeleteTag(Tb, k)
  \/ Tick

SpecTime == Init /\ [][NextTime]_vars

\* Calls with the ids of records that are not stored and with a tag no note
\* holds, next to calls that find their record; some of the notes are filed
\* under a folder id that is not stored.  The clock stands still.
NextAbsent ==
  \/ \E f \in {Null, Bogus} : CreateNote(Ha, f, 0)
  \/ UpdateNote(Bogus, Ha, Absent)
  \/ \E id \in NoteIdArgs : TogglePin(id)
  \/ \E id \in NoteIdArgs : MoveToTrash(id)
  \/ RestoreFromTrash(Bogus)
  \/ \E id \in NoteIdArgs : DeletePermanently(id)
  \/ DeleteTag(Tb, Len(notes) + 1)
  \/ UpdateFolder(Bogus, "A")
  \/ DeleteFolder(Bogus)

SpecAbsent == Init /\ [][NextAbsent]_vars

\* Calls while the durable store accepts and rejects writes, on notes filed in
\* stored folders: the callers pass the ids of stored folders only
NextQuota ==
  \/ \E f \in FolderIds(folders) \cup {Null} : CreateNote(<<>>, f, 0)
  \/ \E id \in NoteIds(notes) : TogglePin(id)
  \/ \E p \in FolderIds(folders) \cup {Null} : CreateFolder("A", p)
  \/ \E id \in FolderIds(folders) : DeleteFolder(id)
  \/ \E w \in SUBSET Collections : Quota(w)

SpecQuota == Init /\ [][NextQuota]_vars

\* Tag rewriting on its own, applied once to a drawn store: one note of any
\* short content, or two notes, the older one possibly moved to the trash; each
\* note as createNote made it at time 0
TagChars == {"#", "a", "b", " "}
PairContents == {<<>>, Ha, <<"#", "a", "b">>, <<"#", "a", " ", "#", "b">>}
\* contents of several lines
LineContents ==
  {<<"#", "a", Newline, Newline, "b">>, <<"#", "a", " ", Newline, "#", "b">>,
   <<"a", Newline, "#", "a", Newline, "b">>, <<Newline, Newline, "#", "a">>}
TagArgs == {Ta, Tb, Tab}
NewTagArgs == {Ta, Tb, Tab, <<"a", " ">>, <<"$", "&">>, <<"$", "$">>}

Created(id, content, trashed) ==
  [createNote(<<>>, id, content, Null, 0, 0).out[1] EXCEPT !.isTrashed = trashed]

InitTag ==
  /\ \/ \E c \in Texts(TagChars, MaxInitLen) \cup LineContents :
          /\ notes = <<Created(1, c, FALSE)>>
          /\ nextId = 2
     \/ \E c1 \in PairContents, c2 \in PairContents, tr \in BOOLEAN :
          /\ notes = <<Created(2, c2, FALSE), Created(1, c1, tr)>>
          /\ nextId = 3
  /\ folders = <<>>
  /\ raw = [notes |-> "array", folders |-> "none"]
  /\ clock = 0
  /\ writable = Collections
  /\ last = NoCall
  /\ result = Void
  /\ calls = NoCalls
  /\ log = <<>>
  /\ ui = NoUi

NextTag ==
  \/ \E o \in TagArgs, n \in NewTagArgs, k \in 1..(MaxNotes + 1) :
       last = NoCall /\ RenameTag(o, n, k)
  \/ \E t \in TagArgs, k \in 1..(MaxNotes + 1) :
       last = NoCall /\ DeleteTag(t, k)

SpecTag == InitTag /\ [][NextTag]_vars

\* One call on a store found in any condition: under each key no text, the
\* JSON of an array of records (none, or one note and one folder the note may
\* be filed in), text that does not parse, or JSON that is not an array
InitBlob ==
  /\ raw \in [Collections -> Kinds]
  /\ \/ notes = <<>>
     \/ /\ raw.notes = "array"
        /\ \E f \in {Null, 2} :
             notes = <<createNote(<<>>, 1, Ha, f, 0, 0).out[1]>>
  /\ \/ folders = <<>>
     \/ /\ raw.folders = "array"
        /\ folders = createFolder(<<>>, 2, "A", Null, 0)
  /\ nextId = 3
  /\ clock = 0
  /\ writable = Collections
  /\ last = NoCall
  /\ result = Void
  /\ calls = NoCalls
  /\ log = <<>>
  /\ ui = NoUi

NextBlob ==
  \/ last = NoCall /\ GetAllNotes
  \/ last = NoCall /\ GetTags
  \/ last = NoCall /\ GetAllFolders
  \/ \E f \in {Null, 2} : last = NoCall /\ CreateNote(<<>>, f, 0)
  \/ \E id \in {1, Bogus}, f \in {Absent, Null} : last = NoCall /\ UpdateNote(id, <<>>, f)
  \/ \E id \in {1, Bogus} : last = NoCall /\ TogglePin(id)
  \/ \E id \in {1, Bogus} : last = NoCall /\ MoveToTrash(id)
  \/ \E id \in {1, Bogus} : last = NoCall /\ RestoreFromTrash(id)
  \/ \E id \in {1, Bogus} : last = NoCall /\ DeletePermanently(id)
  \/ \E k \in 1..(Len(notes) + 1) : last = NoCall /\ RenameTag(Ta, Tb, k)
  \/ \E k \in 1..(Len(notes) + 1) : last = NoCall /\ DeleteTag(Ta, k)
  \/ \E p \in {Null, 2} : last = NoCall /\ CreateFolder("B", p)
  \/ \E id \in {2, Bogus} : last = NoCall /\ UpdateFolder(id, "B")
  \/ \E id \in {2, Bogus} : last = NoCall /\ DeleteFolder(id)

SpecBlob == InitBlob /\ [][NextBlob]_vars

-----------------------------------------------------------------------------
(* What the checks below read off a state *)

\* the tags of a content by the rule of the data model: each '#' followed by
\* one or more word characters gives the whole run of word characters after it
HashTags(content) ==
  {SubSeq(content, i + 1, j) : <<i, j>> \in
     {p \in (1..Len(content)) \X (1..Len(content)) :
        /\ p[1] < p[2]
        /\ content[p[1]] = "#"
        /\ \A h \in (p[1] + 1)..p[2] : IsWord(content[h])
        /\ (p[2] = Len(content) \/ ~IsWord(content[p[2] + 1]))}}

\* the stored note with this id
NoteOf(ns, id) == ns[findIndex(ns, id)]

-----------------------------------------------------------------------------
(* C1: in every state reached by createNote, updateNote, togglePin,        *)
(* moveToTrash, restoreFromTrash, deletePermanently, renameTag, deleteTag  *)
(* and deleteFolder, the tags field of every stored note is, as a set, the *)
(* tags extracted from the note's current content.                         *)
C1_TagsFollowContent ==
  \A i \in 1..Len(notes) : Range(notes[i].tags) = HashTags(notes[i].content)

\* a tag rewrite has just written a note that carries a tag
C1_Witness ==
  /\ last.op = "renameTag"
  /\ "notes" \in last.wrote
  /\ \E i \in 1..Len(notes) : notes[i].tags = <<Tb>>

-----------------------------------------------------------------------------
(* C2: deleteFolder(F) on a stored folder F leaves no note with folderId F, *)
(* no folder with parentId F and no folder F; every former child of F is    *)
(* still stored, with parentId null; every note that was not in F is        *)
(* unchanged, its folderId included.                                        *)
C2_DeleteFolderCascade ==
  [][\A F \in FolderIds(folders) :
       last'.op = "deleteFolder" /\ last'.id = F /\ DeleteFolder(F) =>
         /\ \A i \in 1..Len(notes') : notes'[i].folderId # F
         /\ \A j \in 1..Len(folders') : folders'[j].parentId # F
         /\ F \notin FolderIds(folders')
         /\ \A j \in 1..Len(folders) :
              folders[j].parentId = F /\ folders[j].id # F =>
                \E h \in 1..Len(folders') :
                  /\ folders'[h].id = folders[j].id
                  /\ folders'[h].parentId = Null
         /\ Len(notes') = Len(notes)
         /\ \A i \in 1..Len(notes) :
              notes[i].folderId # F => notes'[i] = notes[i]]_vars

\* a stored folder has just been deleted, a note was detached from it and
\* another folder is still stored at the root
C2_Witness ==
  /\ last.op = "deleteFolder"
  /\ last.id # Bogus
  /\ last.wrote = {"notes", "folders"}
  /\ \E i \in 1..Len(notes) : notes[i].folderId = Null
  /\ \E j \in 1..Len(folders) : folders[j].parentId = Null /\ folders[j].id > last.id

(* C3: every note's non-null folderId is the id of a stored folder, in      *)
(* every state reached by createNote and updateNote with any folderId the   *)
(* caller gives, createFolder, updateFolder and deleteFolder.               *)
C3_NoDanglingFolderId ==
  \A i \in 1..Len(notes) :
    notes[i].folderId # Null => notes[i].folderId \in FolderIds(folders)

(* C4: every folder's non-null parentId is the id of a stored folder, in    *)
(* every state reached by createFolder with any parentId the caller gives,  *)
(* updateFolder and deleteFolder.                                           *)
C4_NoDanglingParentId ==
  \A j \in 1..Len(folders) :
    folders[j].parentId # Null => folders[j].parentId \in FolderIds(folders)

\* the ids reached from the ids in S by following parentId n times or fewer
RECURSIVE Up(_, _, _)
Up(fs, S, n) ==
  IF n = 0 THEN S
  ELSE Up(fs, S \cup {fs[j].parentId : j \in {h \in 1..Len(fs) : fs[h].id \in S}}, n - 1)

\* following parentId from the folder at index j leads back to that folder
OnCycle(fs, j) == fs[j].id \in Up(fs, {fs[j].parentId}, Len(fs))

(* C5: the parent graph of the folders is acyclic: following parentId from  *)
(* a folder never leads back to it, in every state reached by createFolder, *)
(* updateFolder and deleteFolder.                                           *)
C5_ParentGraphAcyclic == \A j \in 1..Len(folders) : ~OnCycle(folders, j)

\* a folder lies under another stored folder, after a deleteFolder
C5_Witness ==
  /\ last.op = "deleteFolder"
  /\ \E j \in 1..Len(folders) : folders[j].parentId \in FolderIds(folders)

(* C6: updateNote on a stored note replaces the content and recomputes the  *)
(* tags, and leaves folderId as it was when the argument is absent, sets it *)
(* to null when the argument is null, and to the given id otherwise.        *)
C6_UpdateNoteFolderId ==
  [][\A id \in NoteIds(notes), c \in Contents, f \in FolderIdArgs \cup {Null, Absent} :
       last'.op = "updateNote" /\ last'.id = id /\ last'.fid = f /\ UpdateNote(id, c, f) =>
         /\ NoteIds(notes') = NoteIds(notes)
         /\ NoteOf(notes', id).content = c
         /\ Range(NoteOf(notes', id).tags) = HashTags(c)
         /\ NoteOf(notes', id).folderId =
              (CASE f = Absent -> NoteOf(notes, id).folderId
                 [] f = Null -> Null
                 [] OTHER -> f)]_vars

\* updateNote was just called without a folderId on a note filed in a stored
\* folder, and the note is still filed there, with the new content
C6_Witness ==
  /\ last.op = "updateNote"
  /\ last.fid = Absent
  /\ last.id \in NoteIds(notes)
  /\ NoteOf(notes, last.id).folderId \in FolderIds(folders)
  /\ NoteOf(notes, last.id).content = Ha

-----------------------------------------------------------------------------
(* C7: no stored note is both trashed and pinned, in every state reached by *)
(* the note operations, togglePin, updateNote and restoreFromTrash of a     *)
(* trashed note included.                                                   *)
C7_TrashedNeverPinned ==
  \A i \in 1..Len(notes) : ~(notes[i].isTrashed /\ notes[i].isPinned)

(* C8: moveToTrash(id) on a stored note leaves it trashed and not pinned,   *)
(* whatever its pin was, and a second moveToTrash(id) leaves the notes as   *)
(* the first left them.                                                     *)
C8_MoveToTrash ==
  [][\A id \in NoteIds(notes) :
       last'.op = "moveToTrash" /\ last'.id = id /\ MoveToTrash(id) =>
         /\ NoteIds(notes') = NoteIds(notes)
         /\ NoteOf(notes', id).isTrashed
         /\ ~NoteOf(notes', id).isPinned
         /\ moveToTrash(notes', id).save
         /\ moveToTrash(notes', id).out = notes']_vars

\* moveToTrash has just been called on a stored note, next to another note
\* that is pinned
C8_Witness ==
  /\ last.op = "moveToTrash"
  /\ last.id \in NoteIds(notes)
  /\ NoteOf(notes, last.id).isTrashed
  /\ ~NoteOf(notes, last.id).isPinned
  /\ \E i \in 1..Len(notes) : notes[i].isPinned

-----------------------------------------------------------------------------
(* Tag rewriting, stated on the positions of the content *)

\* the positions of s where the token #tag stands and no word character follows
BoundedAt(s, tag) ==
  {i \in 1..Len(s) :
     /\ i + Len(tag) <= Len(s)
     /\ s[i] = "#"
     /\ \A h \in 1..Len(tag) : s[i + h] = tag[h]
     /\ (i + Len(tag) = Len(s) \/ ~IsWord(s[i + Len(tag) + 1]))}

RECURSIVE Join(_, _)
\* the texts f[1], ..., f[n] one after the other
Join(f, n) == IF n = 0 THEN <<>> ELSE Join(f, n - 1) \o f[n]

\* s with the token #tag, where it is bounded, replaced by the text by
Rewritten(s, tag, by) ==
  Join([i \in 1..Len(s) |->
          IF i \in BoundedAt(s, tag) THEN by
          ELSE IF \E p \in BoundedAt(s, tag) : p < i /\ i <= p + Len(tag) THEN <<>>
          ELSE <<s[i]>>],
       Len(s))

\* what C9 says of one step of renameTag(o, n): every note holding o has the
\* bounded tokens #o rewritten to #n and nothing else, its tags recomputed and
\* its updatedAt set to the time of the call
RenameRewrites(o, n) ==
  /\ Len(notes') = Len(notes)
  /\ \A i \in 1..Len(notes) :
       Includes(notes[i].tags, o) =>
         /\ notes'[i].content = Rewritten(notes[i].content, o, <<"#">> \o n)
         /\ Range(notes'[i].tags) = HashTags(notes'[i].content)
         /\ notes'[i].updatedAt \in clock..clock'

(* C9: renameTag(oldTag, newTag) rewrites, in every note (trashed or not)   *)
(* whose tags contain oldTag, every #oldTag not followed by a word          *)
(* character into #newTag and leaves every longer token unchanged; the tags *)
(* are recomputed and updatedAt is set to the current time.                 *)
C9_RenameRewritesToken ==
  [][\A o \in TagArgs, n \in NewTagArgs, k \in 1..(MaxNotes + 1) :
       last'.tag = o /\ last'.newTag = n /\ RenameTag(o, n, k) => RenameRewrites(o, n)]_vars

\* the same for the new names that hold no '$'
RenameRewritesPlainName ==
  [][\A o \in TagArgs, n \in {m \in NewTagArgs : "$" \notin Range(m)},
        k \in 1..(MaxNotes + 1) :
       last'.tag = o /\ last'.newTag = n /\ RenameTag(o, n, k) => RenameRewrites(o, n)]_vars

\* what a rewrite of tag leaves alone
TagFrame(tag) ==
  /\ Len(notes') = Len(notes)
  /\ \A i \in 1..Len(notes) :
       ~Includes(notes[i].tags, tag) => notes'[i] = notes[i]
  /\ (\A i \in 1..Len(notes) : ~Includes(notes[i].tags, tag)) =>
       last'.wrote = {} /\ notes' = notes

(* C10: renameTag and deleteTag leave every note whose tags do not contain  *)
(* the tag unchanged, in its place; when no note contains the tag they      *)
(* write nothing to the durable store.                                      *)
C10_TagRewriteFrame ==
  [][/\ \A o \in TagArgs, n \in NewTagArgs, k \in 1..(MaxNotes + 1) :
          last'.tag = o /\ last'.newTag = n /\ RenameTag(o, n, k) => TagFrame(o)
     /\ \A t \in TagArgs, k \in 1..(MaxNotes + 1) :
          last'.tag = t /\ DeleteTag(t, k) => TagFrame(t)]_vars

\* renameTag has just rewritten the newer of two notes as the clock ticked, and
\* the older note has the updatedAt it was created with
C10_Witness ==
  /\ last.op = "renameTag"
  /\ last.wrote = {"notes"}
  /\ Len(notes) = 2
  /\ notes[1].updatedAt = 1
  /\ notes[2].updatedAt = 0
  /\ notes[2].tags # <<>>

\* s with every run of two or more whitespace characters replaced by one space
Collapsed(s) ==
  Join([i \in 1..Len(s) |->
          IF ~IsSpace(s[i]) THEN <<s[i]>>
          ELSE IF i > 1 /\ IsSpace(s[i - 1]) THEN <<>>
          ELSE IF i < Len(s) /\ IsSpace(s[i + 1]) THEN <<" ">>
          ELSE <<s[i]>>],
       Len(s))

(* C11: deleteTag(tag) replaces, in every note whose tags contain tag, the  *)
(* content by the content with every bounded #tag removed and then every    *)
(* run of two or more whitespace characters collapsed to one space;         *)
(* afterwards no note's tags contain tag, the tags of the rewritten notes   *)
(* are those of the new content, and updatedAt is the time of the call.     *)
C11_DeleteTagRewrites ==
  [][\A t \in TagArgs, k \in 1..(MaxNotes + 1) :
       last'.op = "deleteTag" /\ last'.tag = t /\ DeleteTag(t, k) =>
         /\ Len(notes') = Len(notes)
         /\ \A i \in 1..Len(notes) :
              /\ ~Includes(notes'[i].tags, t)
              /\ Includes(notes[i].tags, t) =>
                   /\ notes'[i].content = Collapsed(Rewritten(notes[i].content, t, <<>>))
                   /\ Range(notes'[i].tags) = HashTags(notes'[i].content)
                   /\ notes'[i].updatedAt \in clock..clock']_vars

\* deleteTag has just removed #a from a content of several lines and left one
\* space where two line feeds were, the other tag of the note still there
C11_Witness ==
  /\ last.op = "deleteTag"
  /\ last.tag = Ta
  /\ last.wrote = {"notes"}
  /\ \E i \in 1..Len(notes) : notes[i].content = <<" ", "#", "b">>

-----------------------------------------------------------------------------
\* the durable contents of both collections are what they were
SameStore == notes' = notes /\ folders' = folders /\ raw' = raw

(* C12: deletePermanently of an id that is not a stored note, deleteFolder  *)
(* of an id that is not a stored folder and deleteTag of a tag no note      *)
(* contains each leave both collections as they were: the same stored       *)
(* value, the same records in the same order, the same timestamps.          *)
C12_AbsentDeleteChangesNothing ==
  [][/\ last'.op = "deletePermanently" /\ last'.id \notin NoteIds(notes)
          /\ DeletePermanently(last'.id) => SameStore
     /\ last'.op = "deleteFolder" /\ last'.id \notin FolderIds(folders)
          /\ DeleteFolder(last'.id) => SameStore
     /\ last'.op = "deleteTag"
          /\ (\A i \in 1..Len(notes) : ~Includes(notes[i].tags, last'.tag))
          /\ DeleteTag(last'.tag, Len(notes) + 1) => SameStore]_vars

\* xs lists every note of ns once, the later updatedAt first, notes of equal
\* updatedAt in the order they have in ns
ListedByUpdatedAt(xs, ns) ==
  /\ Len(xs) = Len(ns)
  /\ Range(xs) = Range(ns)
  /\ \A i \in 1..Len(xs), j \in 1..Len(xs) :
       i < j =>
         \/ xs[i].updatedAt > xs[j].updatedAt
         \/ /\ xs[i].updatedAt = xs[j].updatedAt
            /\ findIndex(ns, xs[i].id) < findIndex(ns, xs[j].id)

(* C13: getAllNotes returns every stored note ordered by updatedAt          *)
(* descending, notes of equal updatedAt in stored order; and, the clock     *)
(* never going backwards, the note createNote returned is the first element *)
(* of the getAllNotes result that follows.                                  *)
C13_ListedNewestFirst ==
  [][(last'.op = "getAllNotes" /\ GetAllNotes) =>
       /\ result'.kind = "notes"
       /\ ListedByUpdatedAt(result'.value, notes)
       /\ (last.op = "createNote" => result'.value[1] = result.value)]_vars

\* getAllNotes has just listed two notes in the reverse of their stored
\* order: the older note was updated after the newer one was created
C13_Witness ==
  /\ last.op = "getAllNotes"
  /\ Len(notes) = 2
  /\ result.value = <<notes[2], notes[1]>>

(* C14: updateNote, togglePin, moveToTrash, restoreFromTrash and            *)
(* updateFolder called with an id absent from their collection raise no     *)
(* error, return null (updateNote, togglePin) or nothing, save nothing and  *)
(* leave both collections unchanged.                                        *)
C14_AbsentIdIsSilentNoOp ==
  [][(/\ \/ last'.op = "updateNote" /\ UpdateNote(last'.id, Ha, Absent)
         \/ last'.op = "togglePin" /\ TogglePin(last'.id)
         \/ last'.op = "moveToTrash" /\ MoveToTrash(last'.id)
         \/ last'.op = "restoreFromTrash" /\ RestoreFromTrash(last'.id)
         \/ last'.op = "updateFolder" /\ UpdateFolder(last'.id, "A")
      /\ (last'.op = "updateFolder" => last'.id \notin FolderIds(folders))
      /\ (last'.op # "updateFolder" => last'.id \notin NoteIds(notes)))
     => (/\ result'.kind = (IF last'.op \in {"updateNote", "togglePin"}
                            THEN "null" ELSE "void")
         /\ last'.wrote = {}
         /\ SameStore)]_vars

\* togglePin has just been called with an id no stored note has, two notes
\* being stored, one of them pinned
C14_Witness ==
  /\ last.op = "togglePin"
  /\ last.id \notin NoteIds(notes)
  /\ result.kind = "null"
  /\ Len(notes) = 2
  /\ notes[1].isPinned

-----------------------------------------------------------------------------
(* C15: whatever text is stored under the key of a collection (none, a      *)
(* well-formed array of records, text that does not parse, or JSON that is  *)
(* not an array of records), every store method completes without throwing, *)
(* and a text that is missing or malformed is read as the empty sequence.   *)
C15_NoThrowOnAnyBlob ==
  /\ result.kind # "TypeError"
  /\ last.op = "getAllNotes" /\ raw.notes # "array" =>
       result.kind = "notes" /\ result.value = <<>>

\* the same for the texts that are missing, well-formed or rejected by
\* JSON.parse: no method throws
NoThrowUnlessNotArray ==
  [][IsArray("notes") /\ IsArray("folders") => result'.kind # "TypeError"]_vars

-----------------------------------------------------------------------------
\* the notes of ns that are not in the trash and whose content holds the tag
Users(ns, tag) ==
  {i \in 1..Len(ns) : ~ns[i].isTrashed /\ tag \in HashTags(ns[i].content)}

(* C16: after any sequence of operations getTags returns exactly one        *)
(* (tag, count) pair for each tag that occurs in the content of a note not  *)
(* in the trash, its count the number of such notes; a tag only notes in    *)
(* the trash hold is not listed.                                            *)
C16_TagCounts ==
  last.op = "getTags" =>
    /\ result.kind = "tags"
    /\ \A i \in 1..Len(result.value), j \in 1..Len(result.value) :
         result.value[i].tag = result.value[j].tag => i = j
    /\ {result.value[i].tag : i \in 1..Len(result.value)} =
         UNION {HashTags(notes[i].content) : i \in {h \in 1..Len(notes) : ~notes[h].isTrashed}}
    /\ \A i \in 1..Len(result.value) :
         result.value[i].count = Cardinality(Users(notes, result.value[i].tag))

\* getTags has just listed the one tag of a note, leaving out the tag of a
\* note in the trash
C16_Witness ==
  /\ last.op = "getTags"
  /\ result.value = <<[tag |-> Ta, count |-> 1]>>
  /\ \E i \in 1..Len(notes) : notes[i].isTrashed /\ notes[i].tags = <<Tb>>

-----------------------------------------------------------------------------
(* C18: deleteFolder is atomic across the two collections, also when a      *)
(* durable write is rejected: in no reachable state has the record of a     *)
(* folder F been removed while a note still has folderId F, and in none     *)
(* have the notes been detached from F while F is still stored.             *)
C18_DeleteFolderAllOrNothing ==
  /\ \A i \in 1..Len(notes) :
       notes[i].folderId # Null => notes[i].folderId \in FolderIds(folders)
  /\ last.op = "deleteFolder" /\ "notes" \in last.wrote /\ last.id \in FolderIds(folders) =>
       \E i \in 1..Len(notes) : notes[i].folderId = last.id

\* the saves of the step that setItem rejected
Rejected == last'.wrote \ writable

(* C19: when the durable write is rejected the mutating method raises no    *)
(* exception, the durable collection keeps its previous value, and the      *)
(* method returns its normal result: createNote a note, createFolder a      *)
(* folder, togglePin the note with its pin flipped, none of them stored.    *)
C19_RejectedWriteIsSwallowed ==
  [][(writable' = writable /\ Rejected # {}) =>
       /\ result'.kind # "TypeError"
       /\ ("notes" \in Rejected => notes' = notes /\ raw'.notes = raw.notes)
       /\ ("folders" \in Rejected => folders' = folders /\ raw'.folders = raw.folders)
       /\ (last'.op = "createNote" =>
             /\ result'.kind = "note"
             /\ result'.value.id = last'.id
             /\ result'.value \notin Range(notes'))
       /\ (last'.op = "createFolder" =>
             /\ result'.kind = "folder"
             /\ result'.value.id = last'.id
             /\ result'.value \notin Range(folders'))
       /\ (last'.op = "togglePin" =>
             /\ result'.kind = "note"
             /\ result'.value.isPinned # NoteOf(notes, last'.id).isPinned
             /\ result'.value \notin Range(notes'))
       /\ (last'.op = "deleteFolder" => result' = Void)]_vars

\* createNote has just returned a note while the write of the notes was
\* rejected: a note is stored, the returned one is not
C19_Witness ==
  /\ last.op = "createNote"
  /\ "notes" \notin writable
  /\ result.kind = "note"
  /\ Len(notes) = 1
  /\ result.value \notin Range(notes)

-----------------------------------------------------------------------------
(* The calls followed access by access *)

\* the store after the call c is run alone, from start to end, on the store st
RunAlone(st, c) ==
  CASE c.op = "createNote" ->
         [st EXCEPT !.ns = createNote(st.ns, st.nid, <<>>, c.id, 0, 0).out, !.nid = @ + 1]
    [] c.op = "togglePin" -> [st EXCEPT !.ns = togglePin(st.ns, c.id).out]
    [] c.op = "createFolder" ->
         [st EXCEPT !.fs = createFolder(st.fs, st.nid, "B", c.id, 0), !.nid = @ + 1]
    [] c.op = "deleteFolder" ->
         [st EXCEPT !.ns = detachNotes(st.ns, c.id).out, !.fs = promoteAndRemove(st.fs, c.id)]
    [] OTHER -> st

RECURSIVE RunInOrder(_, _, _)
\* the store after the calls of the callers order[1], ..., order[n] are run one
\* after the other
RunInOrder(st, order, n) ==
  IF n = 0 THEN st ELSE RunAlone(RunInOrder(st, order, n - 1), calls[order[n]])

\* the orders in which the callers can be taken
Orders == {o \in [Callers -> Callers] : \A p \in Callers : \E i \in Callers : o[i] = p}

(* C17: the writes to one collection are serialized: however the calls are  *)
(* started, no call reads a collection between the read and the write       *)
(* another call makes of that collection, and once all calls have ended the *)
(* store is what running them one after the other in some order gives.      *)
C17_WritesSerialized ==
  /\ \A i \in 1..Len(log), j \in 1..Len(log), k \in 1..Len(log) :
       (/\ i < j /\ j < k
        /\ log[i].p = log[k].p /\ log[i].kind = "read" /\ log[k].kind = "write"
        /\ log[i].coll = log[k].coll /\ log[j].coll = log[i].coll
        /\ log[j].kind = "read")
       => log[j].p = log[i].p
  /\ (\A p \in Callers : calls[p].done) =>
       \E o \in Orders :
         LET st == RunInOrder([ns |-> BaseNotes, fs |-> BaseFolders,
                               nid |-> Len(BaseNotes) + Len(BaseFolders) + 1],
                              o, MaxCalls)
         IN notes = st.ns /\ folders = st.fs

\* every caller has called createNote and all the calls have ended: each
\* created note is stored
C17_Witness ==
  /\ \A p \in Callers : calls[p].op = "createNote" /\ calls[p].done
  /\ Len(notes) = Len(BaseNotes) + MaxCalls

(* C20: deleteFolder, the one method that touches both collections, takes   *)
(* them in a fixed order: the folders collection first, the notes           *)
(* collection after it.                                                     *)
C20_FoldersThenNotes ==
  \A k \in 1..Len(log) :
    calls[log[k].p].op = "deleteFolder" /\ log[k].coll = "notes" =>
      \E h \in 1..(k - 1) : log[h].p = log[k].p /\ log[h].coll = "folders"

\* a deleteFolder has ended that read both collections and saved both
C20_Witness ==
  \E p \in Callers :
    /\ calls[p].op = "deleteFolder"
    /\ calls[p].done
    /\ Cardinality({k \in 1..Len(log) : log[k].p = p}) = Len(Plan("deleteFolder"))

-----------------------------------------------------------------------------
(* C21: the clock never going backwards, every stored note has updatedAt    *)
(* >= createdAt in every reachable state, and no operation changes the      *)
(* createdAt of a note or decreases its updatedAt.                          *)
C21_TimestampsMonotonic ==
  [][/\ \A i \in 1..Len(notes') : notes'[i].updatedAt >= notes'[i].createdAt
     /\ \A i \in 1..Len(notes), j \in 1..Len(notes') :
          notes'[j].id = notes[i].id =>
            /\ notes'[j].createdAt = notes[i].createdAt
            /\ notes'[j].updatedAt >= notes[i].updatedAt]_vars

\* renameTag has just rewritten a note after the clock ticked: the note was
\* updated after it was created
C21_Witness ==
  /\ last.op = "renameTag"
  /\ "notes" \in last.wrote
  /\ \E i \in 1..Len(notes) :
       notes[i].tags = <<Tb>> /\ notes[i].updatedAt > notes[i].createdAt

-----------------------------------------------------------------------------
(* C22: createNote returns and persists a note with a fresh id, createdAt   *)
(* equal to updatedAt, isPinned and isTrashed false, tags the extraction of *)
(* the content and the folderId given (null when none); the note is at the  *)
(* front of the stored collection and the notes stored before follow it     *)
(* unchanged, in their order.                                               *)
C22_CreateNoteContract ==
  [][(last'.op = "createNote" /\ result'.kind = "note") =>
       /\ notes' = <<result'.value>> \o notes
       /\ result'.value.id \notin NoteIds(notes)
       /\ result'.value.createdAt = result'.value.updatedAt
       /\ ~result'.value.isPinned
       /\ ~result'.value.isTrashed
       /\ result'.value.tags = extractTags(result'.value.content)
       /\ result'.value.folderId = last'.fid]_vars

-----------------------------------------------------------------------------
\* moveToTrash(id) followed by restoreFromTrash(id), on the collection ns
TrashAndRestore(ns, id) == restoreFromTrash(moveToTrash(ns, id).out, id).out

\* ns with the note id unpinned and nothing else changed
Unpinned(ns, id) == [ns EXCEPT ![findIndex(ns, id)].isPinned = FALSE]

\* restoreFromTrash(id) has just run on a stored note: the note is out of the
\* trash, and a second restoreFromTrash(id) changes nothing
RestoreClearsTrashed ==
  (last'.op = "restoreFromTrash" /\ result'.kind # "TypeError"
     /\ last'.id \in NoteIds(notes)) =>
    /\ ~NoteOf(notes', last'.id).isTrashed
    /\ restoreFromTrash(notes', last'.id).out = notes'

(* C23 as stated: restoreFromTrash(id) on an existing note sets isTrashed   *)
(* to false and is idempotent; moveToTrash(id) followed by                  *)
(* restoreFromTrash(id) returns the note to its state before trashing in    *)
(* every field except isPinned, which stays false.                          *)
C23_TrashRoundTrip ==
  [][/\ RestoreClearsTrashed
     /\ \A id \in NoteIds(notes') :
          TrashAndRestore(notes', id) = Unpinned(notes', id)]_vars

(* C23 amended: restoreFromTrash(id) on an existing note sets isTrashed to  *)
(* false and is idempotent; for a note that is not in the trash,            *)
(* moveToTrash(id) followed by restoreFromTrash(id) returns the note to its *)
(* state before trashing in every field except isPinned, which is false.    *)
C23_TrashRoundTripOfLiveNote ==
  [][/\ RestoreClearsTrashed
     /\ \A id \in NoteIds(notes') :
          ~NoteOf(notes', id).isTrashed =>
            TrashAndRestore(notes', id) = Unpinned(notes', id)]_vars

\* restoreFromTrash has just taken a note out of the trash, next to a pinned
\* note that is not in the trash
C23_Witness ==
  /\ last.op = "restoreFromTrash"
  /\ "notes" \in last.wrote
  /\ last.id \in NoteIds(notes)
  /\ ~NoteOf(notes, last.id).isTrashed
  /\ \E i \in 1..Len(notes) : notes[i].isPinned /\ ~notes[i].isTrashed

-----------------------------------------------------------------------------
\* xs without its i-th element
Without(xs, i) == SubSeq(xs, 1, i - 1) \o SubSeq(xs, i + 1, Len(xs))

(* C24: deletePermanently(id) removes exactly the note with that id,        *)
(* trashed or not, keeps every other note unchanged and in the same         *)
(* relative order, and a second deletePermanently(id) leaves the collection *)
(* as the first left it.                                                    *)
C24_DeletePermanently ==
  [][(last'.op = "deletePermanently" /\ result'.kind # "TypeError") =>
       /\ last'.id \notin NoteIds(notes')
       /\ IF last'.id \in NoteIds(notes)
          THEN notes' = Without(notes, findIndex(notes, last'.id))
          ELSE notes' = notes
       /\ deletePermanently(notes', last'.id).out = notes']_vars

\* deletePermanently has just removed a stored note and left a note that is
\* not in the trash
C24_Witness ==
  /\ last.op = "deletePermanently"
  /\ last.id # Bogus
  /\ last.id \notin NoteIds(notes)
  /\ \E i \in 1..Len(notes) : ~notes[i].isTrashed

-----------------------------------------------------------------------------
\* the note n with the two flags of the note m
WithFlagsOf(n, m) == [n EXCEPT !.isPinned = m.isPinned, !.isTrashed = m.isTrashed]

(* C26: togglePin, moveToTrash and restoreFromTrash change only the         *)
(* isPinned and isTrashed flags of the named note: its content, tags,       *)
(* folderId, createdAt and updatedAt, and every other note, stay unchanged; *)
(* togglePin flips isPinned, so a second togglePin on the same note         *)
(* restores the original collection.                                        *)
C26_FlagsOnly ==
  [][(last'.op \in {"togglePin", "moveToTrash", "restoreFromTrash"}
        /\ result'.kind # "TypeError") =>
       /\ Len(notes') = Len(notes)
       /\ \A i \in 1..Len(notes) :
            IF notes[i].id = last'.id
            THEN WithFlagsOf(notes'[i], notes[i]) = notes[i]
            ELSE notes'[i] = notes[i]
       /\ (last'.op = "togglePin" /\ last'.id \in NoteIds(notes)) =>
            /\ NoteOf(notes', last'.id).isPinned = ~NoteOf(notes, last'.id).isPinned
            /\ NoteOf(notes', last'.id).isTrashed = NoteOf(notes, last'.id).isTrashed
            /\ togglePin(notes', last'.id).out = notes]_vars

\* moveToTrash has just trashed one of two stored notes with a tag; the other
\* one is still out of the trash
C26_Witness ==
  /\ last.op = "moveToTrash"
  /\ "notes" \in last.wrote
  /\ Len(notes) = 2
  /\ NoteOf(notes, last.id).isTrashed
  /\ NoteOf(notes, last.id).tags = <<Ta>>
  /\ \E i \in 1..Len(notes) : ~notes[i].isTrashed

-----------------------------------------------------------------------------
\* the names made of word characters only
WordTagArgs == {n \in NewTagArgs : \A j \in 1..Len(n) : IsWord(n[j])}

(* C25: tag rewriting preserves all other tags: for every note that         *)
(* contains tag t, after deleteTag(t) its tag set is its previous tag set   *)
(* minus {t}, and after renameTag(t, u), u a non-empty run of word          *)
(* characters, its tag set is its previous tag set minus {t} plus {u}.      *)
C25_OtherTagsPreserved ==
  [][/\ last'.op = "deleteTag" =>
          \A i \in 1..Len(notes) :
            Includes(notes[i].tags, last'.tag) =>
              Range(notes'[i].tags) = Range(notes[i].tags) \ {last'.tag}
     /\ (last'.op = "renameTag" /\ last'.newTag \in WordTagArgs) =>
          \A i \in 1..Len(notes) :
            Includes(notes[i].tags, last'.tag) =>
              Range(notes'[i].tags) =
                (Range(notes[i].tags) \ {last'.tag}) \cup {last'.newTag}]_vars

\* renameTag(a, b) has just rewritten a note that also holds the tag ab, whose
\* name starts with the old name
C25_Witness ==
  /\ last.op = "renameTag"
  /\ last.tag = Ta
  /\ last.newTag = Tb
  /\ last.wrote = {"notes"}
  /\ \E i \in 1..Len(notes) : Range(notes[i].tags) = {Tb, Tab}

-----------------------------------------------------------------------------
\* no two records of xs have the same id
DistinctIds(xs) == \A i, j \in 1..Len(xs) : xs[i].id = xs[j].id => i = j

(* C27: generateId never returning an id it handed out before, in every     *)
(* reachable state the stored notes have pairwise distinct ids and the      *)
(* stored folders have pairwise distinct ids.                               *)
C27_DistinctIds == DistinctIds(notes) /\ DistinctIds(folders)

\* two folders are stored, the second inside the first, and a note filed in
\* the second
C27_Witness ==
  /\ Len(notes) = 1
  /\ Len(folders) = 2
  /\ folders[2].parentId = folders[1].id
  /\ notes[1].folderId = folders[2].id

-----------------------------------------------------------------------------
NoteOps ==
  {"createNote", "updateNote", "togglePin", "moveToTrash", "restoreFromTrash",
   "deletePermanently", "renameTag", "deleteTag"}

\* what is stored under the key of a collection is what it was
SameNotes == notes' = notes /\ raw'.notes = raw.notes
SameFolders == folders' = folders /\ raw'.folders = raw.folders

(* C28: each operation writes only the collections it owns: getAllNotes,    *)
(* getAllFolders and getTags never change the durable store; every note and *)
(* tag operation leaves the folders collection unchanged; createFolder and  *)
(* updateFolder leave the notes collection unchanged; deleteFolder writes   *)
(* the notes collection only when a note referenced the deleted folder.     *)
C28_WritesOwnCollections ==
  [][/\ last'.op \in {"getAllNotes", "getAllFolders", "getTags"} =>
          SameNotes /\ SameFolders /\ last'.wrote = {}
     /\ last'.op \in NoteOps => SameFolders /\ "folders" \notin last'.wrote
     /\ last'.op \in {"createFolder", "updateFolder"} =>
          SameNotes /\ "notes" \notin last'.wrote
     /\ (last'.op = "deleteFolder"
           /\ \A i \in 1..Len(notes) : notes[i].folderId # last'.id) =>
          SameNotes /\ "notes" \notin last'.wrote]_vars

\* deleteFolder has just removed a folder no note was filed in, a note being
\* stored: the folders were written and the notes were not
C28_Witness ==
  /\ last.op = "deleteFolder"
  /\ last.wrote = {"folders"}
  /\ last.id \notin FolderIds(folders)
  /\ last.id # Bogus
  /\ Len(notes) = 1

-----------------------------------------------------------------------------
(* C29: renameTag bumps updatedAt and writes the store only for notes whose *)
(* content it actually changes: in particular renameTag(t, t) leaves every  *)
(* note's content, tags and updatedAt unchanged and performs no durable     *)
(* write.                                                                   *)
C29_RenameToItselfIsNoOp ==
  [][last'.op = "renameTag" =>
       /\ Len(notes') = Len(notes)
       /\ \A i \in 1..Len(notes) :
            notes'[i].content = notes[i].content => notes'[i] = notes[i]
       /\ (\A i \in 1..Len(notes) : notes'[i].content = notes[i].content) =>
            last'.wrote = {}
       /\ last'.tag = last'.newTag => notes' = notes /\ last'.wrote = {}]_vars

-----------------------------------------------------------------------------
\* the ids and contents of a list of notes, in the order of the list
IdContent(ns) == [i \in 1..Len(ns) |-> <<ns[i].id, ns[i].content>>]

(* C30: for every interleaving of the UI handlers, once every in-flight     *)
(* handler has completed the tag list held in UI state is the result        *)
(* getTags gives on the store and the note list held in UI state matches    *)
(* the store's notes; a refreshData started before a later edit never       *)
(* overwrites the newer tags with older ones.                               *)
C30_UiFollowsStore ==
  ui.pending = <<>> =>
    /\ ui.tags = getTags(getNotesFromStorage, Len(getNotesFromStorage))
    /\ IdContent(ui.notes) = IdContent(getAllNotes(getNotesFromStorage))

\* the last sentence on its own: a refreshData that ends while the tag list
\* is the one getTags gives on the store leaves it so
RefreshKeepsNewerTags ==
  [][(/\ ui.pending # <<>>
      /\ ui'.pending = Tail(ui.pending)
      /\ ui.tags = getTags(getNotesFromStorage, Len(getNotesFromStorage))) =>
       ui'.tags = ui.tags]_vars

=============================================================================
